---- MODULE Spec2Model ----
(***************************************************************************)
(* Blind-voting core of the forum translation viewer (src/app.py):         *)
(* the vote store (save_vote / remove_vote / get_vote_stats), the          *)
(* anonymization mapper (get_randomized_models / get_model_display_name /  *)
(* get_actual_model_name), the session vote tracker and the script run     *)
(* main() that ties them together.                                         *)
(*                                                                         *)
(* Python values are represented as follows.                               *)
(*   - a dict is a function, a dict whose values are all True and a set    *)
(*     are sets of keys;                                                   *)
(*   - the f-string keys "{t}", "{t}_{p}" and "{t}_{p}_{model}" are the    *)
(*     tuples <<t>>, <<t, p>> and <<t, p, model>> (thread and post ids are *)
(*     integers in the corpus, so the formatted strings are in one-to-one  *)
(*     correspondence with these tuples);                                  *)
(*   - a display name "Model X" is the token sequence <<"Model", ord(X)>>, *)
(*     and "Model X (source)" is <<"Model", ord(X), source>>;              *)
(*   - the votes collection is a bag of documents (the timestamp field     *)
(*     only makes documents distinguishable, which the bag's copies do).   *)
(***************************************************************************)
EXTENDS Integers, Sequences, FiniteSets, Bags, TLC

VARIABLES
    dbUp,               \* get_db() is not None (cached for the process)
    votes,              \* contents of db.votes
    query_ip,           \* st.query_params "ip" of the viewing session
    randomized_models,  \* st.session_state.randomized_models
    voted_posts,        \* st.session_state.voted_posts
    user_votes,         \* st.session_state.user_votes
    sel_page,           \* value of the sidebar page selectbox
    selected_thread,    \* value of the thread selectbox (1-based index)
    page,               \* what the last script run rendered
    notice,             \* st.success message of the last button handler
    ever_voted,         \* history: (thread, post) whose vote button was clicked
    log,                \* history: the last two direct store calls
    result,             \* history: the last direct mapper call and its value
    viewers,            \* concurrent sessions: each viewer's query parameter and st.session_state
    cast_by             \* history: which viewer's click inserted each document

vars == <<dbUp, votes, query_ip, randomized_models, voted_posts, user_votes,
          sel_page, selected_thread, page, notice, ever_voted, log, result,
          viewers, cast_by>>

sessionVars == <<query_ip, randomized_models, voted_posts, user_votes,
                 sel_page, selected_thread, page, notice, ever_voted>>

(***************************************************************************)
(* Bounds                                                                  *)
(***************************************************************************)
\* direct store calls stop inserting once the collection holds this many
MaxVotes == 3

(***************************************************************************)
(* The corpus (translated_threads.json) and the inputs                     *)
(***************************************************************************)
\* post_id=None, the default of the mapper functions
NoPost == 0

\* load_threads(): two threads; post id 2 occurs in both, and the second
\* thread was translated by one source only
threads == <<
    [id |-> 1,
     title_english |-> {"gpt-4o", "deepseek-chat"},
     posts |-> << [id |-> 1, message_english |-> {"gpt-4o", "deepseek-chat"}],
                  [id |-> 2, message_english |-> {"gpt-4o"}] >>],
    [id |-> 2,
     title_english |-> {"gpt-4o"},
     posts |-> << [id |-> 2, message_english |-> {"gpt-4o"}] >>] >>

Pages == {"Thread Translations", "Statistics"}

\* the "ip" query parameter: absent, or a string given as its characters
IpParams == { [present |-> FALSE, value |-> <<>>],
              [present |-> TRUE,  value |-> <<"2", "0", "3">>] }

Range(f) == {f[i] : i \in DOMAIN f}

\* every (thread id, post id) of the corpus
Items == UNION { {<<threads[i].id, q.id>> : q \in Range(threads[i].posts)} : i \in DOMAIN threads }

(***************************************************************************)
(* Vote store                                                              *)
(***************************************************************************)
VoteDoc(thread_id, post_id, selected_model, user_ip) ==
    [thread_id |-> thread_id, post_id |-> post_id,
     model |-> selected_model, user_ip |-> user_ip]

\* save_vote: the collection afterwards. Without a database nothing happens.
save_vote(up, coll, thread_id, post_id, selected_model, user_ip) ==
    IF up
    THEN coll (+) SetToBag({VoteDoc(thread_id, post_id, selected_model, user_ip)})
    ELSE coll

\* the documents the filter of remove_vote / get_user_vote matches
MatchVoter(coll, thread_id, post_id, user_ip) ==
    {d \in BagToSet(coll) : /\ d.thread_id = thread_id
                            /\ d.post_id = post_id
                            /\ d.user_ip = user_ip}

\* remove_vote with a filter on thread_id and post_id alone
remove_vote_any_voter(up, coll, thread_id, post_id, user_ip) ==
    LET docs == {d \in BagToSet(coll) : d.thread_id = thread_id /\ d.post_id = post_id}
    IN  IF up /\ docs # {} THEN {coll (-) SetToBag({d}) : d \in docs} ELSE {coll}

\* remove_vote: the collections it can leave. delete_one deletes a single
\* matching document; which one, when several match, is the server's choice.
remove_vote(up, coll, thread_id, post_id, user_ip) ==
    IF up /\ MatchVoter(coll, thread_id, post_id, user_ip) # {}
    THEN {coll (-) SetToBag({d}) : d \in MatchVoter(coll, thread_id, post_id, user_ip)}
    ELSE {coll}

RECURSIVE SumCopies(_, _)
SumCopies(coll, docs) ==
    IF docs = {} THEN 0
    ELSE LET d == CHOOSE x \in docs : TRUE
         IN  CopiesIn(d, coll) + SumCopies(coll, docs \ {d})

\* the $group stage: _id -> count over the documents docs of coll
GroupByModel(coll, docs) ==
    [m \in {d.model : d \in docs} |->
        SumCopies(coll, {d \in docs : d.model = m})]

\* get_vote_stats with a $match on thread_id alone
get_vote_stats_by_thread(up, coll, thread_id, post_id) ==
    IF up
    THEN LET docs == {d \in BagToSet(coll) : d.thread_id = thread_id}
         IN  [counts |-> GroupByModel(coll, docs), total |-> SumCopies(coll, docs)]
    ELSE [counts |-> [m \in {} |-> 0], total |-> 0]

\* get_vote_stats: (counts, total) as a record
get_vote_stats(up, coll, thread_id, post_id) ==
    IF up
    THEN LET docs == {d \in BagToSet(coll) : /\ d.thread_id = thread_id
                                             /\ d.post_id = post_id}
         IN  [counts |-> GroupByModel(coll, docs), total |-> SumCopies(coll, docs)]
    ELSE [counts |-> [m \in {} |-> 0], total |-> 0]

\* get_all_vote_stats
get_all_vote_stats(up, coll) ==
    IF up THEN GroupByModel(coll, BagToSet(coll)) ELSE [m \in {} |-> 0]

\* get_user_vote: the models of the matching documents (as a set)
get_user_vote(up, coll, thread_id, post_id, user_ip) ==
    IF up THEN {d.model : d \in MatchVoter(coll, thread_id, post_id, user_ip)} ELSE {}

\* dict.get(model, 0) on a counts mapping
CountOf(counts, m) == IF m \in DOMAIN counts THEN counts[m] ELSE 0

(***************************************************************************)
(* Anonymization mapper                                                    *)
(***************************************************************************)
\* get_translation_models
get_translation_models(thread) ==
    thread.title_english \cup UNION {q.message_english : q \in Range(thread.posts)}

\* key = f"{thread_id}_{post_id}" if post_id is not None else thread_id
scope_key(thread_id, post_id) ==
    IF post_id # NoPost THEN <<thread_id, post_id>> ELSE <<thread_id>>

\* random.sample(models, len(models)): every ordering of the models
random_sample(models) ==
    {f \in [1..Cardinality(models) -> models] :
        \A i, j \in DOMAIN f : f[i] = f[j] => i = j}

\* get_randomized_models without the "key not in" test: draws on every call
get_randomized_models_redraw(rm, models, thread_id, post_id) ==
    {[k \in DOMAIN rm \cup {scope_key(thread_id, post_id)} |->
         IF k = scope_key(thread_id, post_id) THEN perm ELSE rm[k]] :
       perm \in random_sample(models)}

\* get_randomized_models: the values randomized_models can have afterwards;
\* the call returns the entry at scope_key(thread_id, post_id)
get_randomized_models(rm, models, thread_id, post_id) ==
    IF scope_key(thread_id, post_id) \in DOMAIN rm
    THEN {rm}
    ELSE {rm @@ (scope_key(thread_id, post_id) :> perm) : perm \in random_sample(models)}

\* list.index(model) + 1
IndexOf(list, model) == CHOOSE i \in DOMAIN list : list[i] = model /\ \A j \in 1..(i-1) : list[j] # model

\* get_model_display_name with chr(65 + position): letters one too far
get_model_display_name_shifted(rm, model, thread_id, post_id, show_actual) ==
    LET position == IndexOf(rm[scope_key(thread_id, post_id)], model)
        display_name == <<"Model", 65 + position>>
    IN  IF show_actual THEN display_name \o <<model>> ELSE display_name

\* get_model_display_name (the scope must be assigned and hold the model:
\* the code raises KeyError / ValueError otherwise)
get_model_display_name(rm, model, thread_id, post_id, show_actual) ==
    LET position == IndexOf(rm[scope_key(thread_id, post_id)], model)
        display_name == <<"Model", 64 + position>>
    IN  IF show_actual THEN display_name \o <<model>> ELSE display_name

\* get_actual_model_name: either the source at the decoded position, or the
\* display name itself (the fallback of the last line)
get_actual_model_name(rm, display_name, thread_id, post_id) ==
    LET position == display_name[Len(display_name)] - 64
        key == scope_key(thread_id, post_id)
    IN  IF key \in DOMAIN rm /\ 0 < position /\ position <= Len(rm[key])
        THEN [returns |-> "source", source |-> rm[key][position], display_name |-> <<>>]
        ELSE [returns |-> "display_name", source |-> "", display_name |-> display_name]

(***************************************************************************)
(* Session vote tracker                                                    *)
(***************************************************************************)
vote_key(thread_id, post_id, model) == <<thread_id, post_id, model>>

\* post_key made of the thread id alone
post_key_thread_only(thread_id, post_id) == <<thread_id>>

post_key(thread_id, post_id) == <<thread_id, post_id>>

get_user_vote_from_session(uv, thread_id, post_id, model) ==
    vote_key(thread_id, post_id, model) \in uv

save_user_vote_to_session(uv, thread_id, post_id, model) ==
    uv \cup {vote_key(thread_id, post_id, model)}

remove_user_vote_from_session(uv, thread_id, post_id, model) ==
    uv \ {vote_key(thread_id, post_id, model)}

\* user_ip = st.query_params.get("ip", ["unknown"])[0]: the default list's
\* first element, or the first character of the parameter's string
user_ip_of(q) == IF q.present THEN q.value[1] ELSE "unknown"

(***************************************************************************)
(* The script run main()                                                   *)
(***************************************************************************)
NoCounts == [m \in {} |-> 0]

BlankPage ==
    [view |-> "none", thread |-> 0, title |-> <<>>, posts |-> <<>>,
     stats |-> NoCounts, total |-> 0]

\* sum(vote_stats.values())
RECURSIVE SumValues(_, _)
SumValues(counts, keys) ==
    IF keys = {} THEN 0
    ELSE LET k == CHOOSE x \in keys : TRUE
         IN  counts[k] + SumValues(counts, keys \ {k})

\* show_statistics: total and per-source counts under the real identifiers
show_statistics(up, coll) ==
    LET vote_stats == get_all_vote_stats(up, coll)
    IN  [BlankPage EXCEPT !.view = "Statistics",
                          !.stats = vote_stats,
                          !.total = SumValues(vote_stats, DOMAIN vote_stats)]

\* the distribution gate of the original column: the lines written under
\* "Vote Distribution:", none when the block is not shown
VoteDistribution(up, coll, rm, vp, thread_id, post_id) ==
    LET stats == get_vote_stats(up, coll, thread_id, post_id)
    IN  IF post_key(thread_id, post_id) \in vp /\ stats.total > 0
        THEN {[display_name |-> get_model_display_name(rm, m, thread_id, post_id, TRUE),
               count |-> stats.counts[m]] : m \in DOMAIN stats.counts}
        ELSE {}

\* one translation column of a post; model is what the button's key names,
\* it is not displayed
PostColumn(rm, uv, vp, thread_id, post, model) ==
    [model        |-> model,
     display_name |-> get_model_display_name(rm, model, thread_id, post.id, FALSE),
     translated   |-> model \in post.message_english,
     button       |-> IF get_user_vote_from_session(uv, thread_id, post.id, model)
                      THEN "Remove Vote" ELSE "Vote for this translation",
     caption      |-> IF post_key(thread_id, post.id) \in vp THEN <<"Model:", model>> ELSE <<>>]

\* the thread page once every scope of the thread is assigned
ThreadPage(up, coll, rm, uv, vp, thread) ==
    [BlankPage EXCEPT
        !.view = "Thread Translations",
        !.thread = thread.id,
        !.title = [i \in DOMAIN rm[scope_key(thread.id, NoPost)] |->
                     get_model_display_name(rm, rm[scope_key(thread.id, NoPost)][i],
                                            thread.id, NoPost, FALSE)],
        !.posts = [j \in DOMAIN thread.posts |->
                     LET post == thread.posts[j]
                         post_models == rm[scope_key(thread.id, post.id)]
                     IN  [id |-> post.id,
                          distribution |-> VoteDistribution(up, coll, rm, vp, thread.id, post.id),
                          columns |-> [i \in DOMAIN post_models |->
                                         PostColumn(rm, uv, vp, thread.id, post, post_models[i])]]]]

\* the get_randomized_models calls of one run, post by post
RECURSIVE AssignPosts(_, _, _, _)
AssignPosts(rms, models, thread_id, posts) ==
    IF posts = <<>> THEN rms
    ELSE AssignPosts(UNION {get_randomized_models(rm, models, thread_id, Head(posts).id) : rm \in rms},
                     models, thread_id, Tail(posts))

\* main(): the (randomized_models, page) pairs one script run can end with
main(up, coll, rm, uv, vp, pg, sel) ==
    IF pg = "Thread Translations"
    THEN LET thread == threads[sel]
             models == get_translation_models(thread)
             assigned == AssignPosts(get_randomized_models(rm, models, thread.id, NoPost),
                                     models, thread.id, thread.posts)
         IN  {<<rm2, ThreadPage(up, coll, rm2, uv, vp, thread)>> : rm2 \in assigned}
    ELSE {<<rm, show_statistics(up, coll)>>}

\* the column of model in the rendered post j, if the page shows it
ColumnsOf(pg, j, model) ==
    IF pg.view = "Thread Translations" /\ j \in DOMAIN pg.posts
    THEN {c \in Range(pg.posts[j].columns) : c.model = model}
    ELSE {}

(***************************************************************************)
(* A viewing session                                                       *)
(***************************************************************************)
\* what the collection holds when the session starts: nothing, or the votes
\* of an earlier viewer (identity "7") for one source on every item
PriorVotes == SetToBag({VoteDoc(it[1], it[2], "gpt-4o", "7") : it \in Items})

Init ==
    /\ dbUp \in BOOLEAN
    /\ votes \in (IF dbUp THEN {EmptyBag, PriorVotes} ELSE {EmptyBag})
    /\ query_ip \in IpParams
    /\ randomized_models = <<>>
    /\ voted_posts = {}
    /\ user_votes = {}
    /\ sel_page = "Thread Translations"
    /\ selected_thread = 1
    /\ page = BlankPage
    /\ notice = ""
    /\ ever_voted = {}
    /\ log = <<>>
    /\ result = <<>>
    /\ viewers = <<>>
    /\ cast_by = EmptyBag

\* a script run with the widgets as they are (the first run, or a rerun)
Rerun ==
    /\ \E o \in main(dbUp, votes, randomized_models, user_votes, voted_posts,
                     sel_page, selected_thread) :
          /\ randomized_models' = o[1]
          /\ page' = o[2]
    /\ notice' = ""
    /\ UNCHANGED <<viewers, cast_by, dbUp, votes, query_ip, voted_posts, user_votes, sel_page,
                   selected_thread, ever_voted, log, result>>

\* the viewer picks another thread in the selectbox
SelectThread(i) ==
    /\ page.view = "Thread Translations"
    /\ i # selected_thread
    /\ selected_thread' = i
    /\ \E o \in main(dbUp, votes, randomized_models, user_votes, voted_posts, sel_page, i) :
          /\ randomized_models' = o[1]
          /\ page' = o[2]
    /\ notice' = ""
    /\ UNCHANGED <<viewers, cast_by, dbUp, votes, query_ip, voted_posts, user_votes, sel_page,
                   ever_voted, log, result>>

\* the viewer picks the other page in the sidebar; the thread selectbox is
\* not rendered on the statistics page and comes back with its default
SelectPage(pg) ==
    /\ page.view # "none"
    /\ pg # sel_page
    /\ sel_page' = pg
    /\ selected_thread' = 1
    /\ \E o \in main(dbUp, votes, randomized_models, user_votes, voted_posts, pg, 1) :
          /\ randomized_models' = o[1]
          /\ page' = o[2]
    /\ notice' = ""
    /\ UNCHANGED <<viewers, cast_by, dbUp, votes, query_ip, voted_posts, user_votes, ever_voted, log, result>>

\* "Vote for this translation" of post j, column of model, is clicked
Vote(j, model) ==
    /\ \E c \in ColumnsOf(page, j, model) : c.button = "Vote for this translation"
    /\ LET thread == threads[selected_thread]
           post == thread.posts[j]
           user_ip == user_ip_of(query_ip)
       IN  /\ ~get_user_vote_from_session(user_votes, thread.id, post.id, model)
           /\ votes' = save_vote(dbUp, votes, thread.id, post.id, model, user_ip)
           /\ user_votes' = save_user_vote_to_session(user_votes, thread.id, post.id, model)
           /\ voted_posts' = voted_posts \cup {post_key(thread.id, post.id)}
           /\ notice' = "Vote submitted successfully!"
           /\ ever_voted' = ever_voted \cup {<<thread.id, post.id>>}
           /\ \E o \in main(dbUp, votes', randomized_models, user_votes', voted_posts',
                            sel_page, selected_thread) :
                 /\ randomized_models' = o[1]
                 /\ page' = o[2]
    /\ UNCHANGED <<viewers, cast_by, dbUp, query_ip, sel_page, selected_thread, log, result>>

\* "Remove Vote" of post j, column of model, is clicked
RemoveVote(j, model) ==
    /\ \E c \in ColumnsOf(page, j, model) : c.button = "Remove Vote"
    /\ LET thread == threads[selected_thread]
           post == thread.posts[j]
           user_ip == user_ip_of(query_ip)
       IN  /\ get_user_vote_from_session(user_votes, thread.id, post.id, model)
           /\ votes' \in remove_vote(dbUp, votes, thread.id, post.id, user_ip)
           /\ user_votes' = remove_user_vote_from_session(user_votes, thread.id, post.id, model)
           /\ notice' = "Vote removed successfully!"
           /\ \E o \in main(dbUp, votes', randomized_models, user_votes', voted_posts,
                            sel_page, selected_thread) :
                 /\ randomized_models' = o[1]
                 /\ page' = o[2]
    /\ UNCHANGED <<viewers, cast_by, dbUp, query_ip, voted_posts, sel_page, selected_thread,
                   ever_voted, log, result>>

AllModels == UNION {get_translation_models(threads[i]) : i \in DOMAIN threads}

Next ==
    \/ Rerun
    \/ \E i \in DOMAIN threads : SelectThread(i)
    \/ \E pg \in Pages : SelectPage(pg)
    \/ \E j \in 1..2, model \in AllModels : Vote(j, model)
    \/ \E j \in 1..2, model \in AllModels : RemoveVote(j, model)

Spec == Init /\ [][Next]_vars

(***************************************************************************)
(* The vote store called directly, with any arguments                      *)
(***************************************************************************)
\* the voter identities the sessions can present
UserIps == {user_ip_of(q) : q \in IpParams}

\* the log keeps the last two calls, each with the collection it found
Push(l, e) == IF l = <<>> THEN <<e>> ELSE <<l[Len(l)], e>>

StoreCall(op, thread_id, post_id, model, user_ip) ==
    [op |-> op, thread_id |-> thread_id, post_id |-> post_id, model |-> model,
     user_ip |-> user_ip, before |-> votes]

CallSaveVote(thread_id, post_id, selected_model, user_ip) ==
    /\ BagCardinality(votes) < MaxVotes
    /\ votes' = save_vote(dbUp, votes, thread_id, post_id, selected_model, user_ip)
    /\ log' = Push(log, StoreCall("save_vote", thread_id, post_id, selected_model, user_ip))
    /\ UNCHANGED <<viewers, cast_by, dbUp, sessionVars, result>>

CallRemoveVote(thread_id, post_id, user_ip) ==
    /\ votes' \in remove_vote(dbUp, votes, thread_id, post_id, user_ip)
    /\ log' = Push(log, StoreCall("remove_vote", thread_id, post_id, "", user_ip))
    /\ UNCHANGED <<viewers, cast_by, dbUp, sessionVars, result>>

CallGetVoteStats(thread_id, post_id) ==
    /\ log' = Push(log, StoreCall("get_vote_stats", thread_id, post_id, "", ""))
    /\ UNCHANGED <<viewers, cast_by, dbUp, votes, sessionVars, result>>

CallGetAllVoteStats ==
    /\ log' = Push(log, StoreCall("get_all_vote_stats", 0, 0, "", ""))
    /\ UNCHANGED <<viewers, cast_by, dbUp, votes, sessionVars, result>>

NextStore ==
    \/ \E it \in Items, m \in AllModels, ip \in UserIps : CallSaveVote(it[1], it[2], m, ip)
    \/ \E it \in Items, ip \in UserIps : CallRemoveVote(it[1], it[2], ip)
    \/ \E it \in Items : CallGetVoteStats(it[1], it[2])
    \/ CallGetAllVoteStats

\* direct calls start from an empty collection
InitCalls == Init /\ votes = EmptyBag /\ ~query_ip.present

SpecStore == InitCalls /\ [][NextStore]_vars

(***************************************************************************)
(* The mapper called directly, with any arguments                          *)
(***************************************************************************)
\* post ids a caller passes, None included
PostArgs == {NoPost} \cup {it[2] : it \in Items}

\* "Model @" .. "Model C": one letter below 'A' and one above the sources
DisplayNames == {<<"Model", c>> : c \in 64..(65 + Cardinality(AllModels))}

MapperCall(fn, arg, thread_id, post_id, value) ==
    [fn |-> fn, arg |-> arg, thread_id |-> thread_id, post_id |-> post_id,
     value |-> value]

CallGetRandomizedModels(i, post_id) ==
    LET thread == threads[i]
    IN  /\ randomized_models' \in get_randomized_models(randomized_models,
                get_translation_models(thread), thread.id, post_id)
        /\ result' = MapperCall("get_randomized_models", get_translation_models(thread),
                                thread.id, post_id,
                                randomized_models'[scope_key(thread.id, post_id)])
        /\ UNCHANGED <<viewers, cast_by, dbUp, votes, query_ip, voted_posts, user_votes, sel_page,
                       selected_thread, page, notice, ever_voted, log>>

\* enabled where the code does not raise KeyError / ValueError
CallGetModelDisplayName(model, thread_id, post_id, show_actual) ==
    /\ scope_key(thread_id, post_id) \in DOMAIN randomized_models
    /\ model \in Range(randomized_models[scope_key(thread_id, post_id)])
    /\ result' = MapperCall("get_model_display_name", model, thread_id, post_id,
                    get_model_display_name(randomized_models, model, thread_id,
                                           post_id, show_actual))
    /\ UNCHANGED <<viewers, cast_by, dbUp, votes, sessionVars, log>>

CallGetActualModelName(display_name, thread_id, post_id) ==
    /\ result' = MapperCall("get_actual_model_name", display_name, thread_id, post_id,
                    get_actual_model_name(randomized_models, display_name,
                                          thread_id, post_id))
    /\ UNCHANGED <<viewers, cast_by, dbUp, votes, sessionVars, log>>

NextMapper ==
    \/ \E i \in DOMAIN threads, p \in PostArgs : CallGetRandomizedModels(i, p)
    \/ \E m \in AllModels, i \in DOMAIN threads, p \in PostArgs, b \in BOOLEAN :
          CallGetModelDisplayName(m, threads[i].id, p, b)
    \/ \E d \in DisplayNames, i \in DOMAIN threads, p \in PostArgs :
          CallGetActualModelName(d, threads[i].id, p)

SpecMapper == InitCalls /\ [][NextMapper]_vars

(***************************************************************************)
(* Independent viewing sessions on one store                               *)
(***************************************************************************)
\* the viewers, each in a session of their own, all looking at the first
\* post of the first thread
Viewers == {1, 2}

ConcurrentItems == {<<threads[1].id, threads[1].posts[1].id>>}

NoStats == [thread_id |-> 0, post_id |-> 0, counts |-> NoCounts, total |-> 0]

\* a fresh session: initialize_session_state, nothing rendered yet
NewSession(q) ==
    [query_ip |-> q, user_votes |-> {}, voted_posts |-> {}, seen |-> NoStats]

InitConcurrent ==
    /\ dbUp = TRUE
    /\ votes = EmptyBag
    /\ query_ip \in {q \in IpParams : ~q.present}
    /\ randomized_models = <<>>
    /\ voted_posts = {}
    /\ user_votes = {}
    /\ sel_page = "Thread Translations"
    /\ selected_thread = 1
    /\ page = BlankPage
    /\ notice = ""
    /\ ever_voted = {}
    /\ log = <<>>
    /\ result = <<>>
    /\ viewers \in {[v \in Viewers |-> NewSession(f[v])] : f \in [Viewers -> IpParams]}
    /\ cast_by = EmptyBag

\* viewer v clicks "Vote for this translation" of item it, column of model:
\* the handler's save_vote and its session bookkeeping
ViewerVote(v, it, model) ==
    LET user_ip == user_ip_of(viewers[v].query_ip)
    IN  /\ ~get_user_vote_from_session(viewers[v].user_votes, it[1], it[2], model)
        /\ votes' = save_vote(dbUp, votes, it[1], it[2], model, user_ip)
        /\ viewers' = [viewers EXCEPT
              ![v].user_votes = save_user_vote_to_session(@, it[1], it[2], model),
              ![v].voted_posts = @ \cup {post_key(it[1], it[2])}]
        /\ cast_by' = cast_by (+) SetToBag({[doc |-> VoteDoc(it[1], it[2], model, user_ip),
                                             viewer |-> v]})
        /\ UNCHANGED <<dbUp, sessionVars, log, result>>

\* viewer v clicks "Remove Vote" of item it, column of model: remove_vote
\* deletes one document matching (thread, post, user_ip), whoever inserted it
ViewerRemoveVote(v, it, model) ==
    LET user_ip == user_ip_of(viewers[v].query_ip)
        matching == MatchVoter(votes, it[1], it[2], user_ip)
    IN  /\ get_user_vote_from_session(viewers[v].user_votes, it[1], it[2], model)
        /\ votes' \in remove_vote(dbUp, votes, it[1], it[2], user_ip)
        /\ IF dbUp /\ matching # {}
           THEN \E c \in BagToSet(cast_by) :
                   /\ c.doc \in matching
                   /\ votes' = votes (-) SetToBag({c.doc})
                   /\ cast_by' = cast_by (-) SetToBag({c})
           ELSE cast_by' = cast_by
        /\ viewers' = [viewers EXCEPT
              ![v].user_votes = remove_user_vote_from_session(@, it[1], it[2], model)]
        /\ UNCHANGED <<dbUp, sessionVars, log, result>>

\* a run of viewer v's script reaches the distribution block of item it and
\* reads get_vote_stats
ViewerStats(v, it) ==
    /\ post_key(it[1], it[2]) \in viewers[v].voted_posts
    /\ viewers' = [viewers EXCEPT ![v].seen =
          LET stats == get_vote_stats(dbUp, votes, it[1], it[2])
          IN  [thread_id |-> it[1], post_id |-> it[2],
               counts |-> stats.counts, total |-> stats.total]]
    /\ UNCHANGED <<dbUp, votes, sessionVars, log, result, cast_by>>

NextConcurrent ==
    \/ \E v \in Viewers, it \in ConcurrentItems, m \in AllModels : ViewerVote(v, it, m)
    \/ \E v \in Viewers, it \in ConcurrentItems, m \in AllModels : ViewerRemoveVote(v, it, m)
    \/ \E v \in Viewers, it \in ConcurrentItems : ViewerStats(v, it)

SpecConcurrent == InitConcurrent /\ [][NextConcurrent]_vars

(***************************************************************************)
(* Properties                                                              *)
(***************************************************************************)
ThreadIds == {threads[i].id : i \in DOMAIN threads}

\* C1: once a scope key has a mapping, every later step of the session
\* (rerun, thread or page selection, vote, vote removal) leaves that key
\* mapped to the identical ordered list.
C1_MappingStable ==
    [][\A k \in DOMAIN randomized_models :
          /\ k \in DOMAIN randomized_models'
          /\ randomized_models'[k] = randomized_models[k]]_vars

\* C1 witness: the post scope (1, 1) is mapped, the viewer has voted on it,
\* removed every vote again and moved on to the other thread.
C1_Witness ==
    /\ scope_key(1, 1) \in DOMAIN randomized_models
    /\ <<1, 1>> \in ever_voted
    /\ user_votes = {}
    /\ page.view = "Thread Translations" /\ page.thread = 2

\* C2: for every assigned scope (thread-only or thread+post) and every source
\* s of its mapping, resolving the display name of s gives back s; and two
\* different sources of one scope never share a display name.
C2_RoundTrip ==
    \A t \in ThreadIds, p \in PostArgs :
        scope_key(t, p) \in DOMAIN randomized_models =>
            \A s \in Range(randomized_models[scope_key(t, p)]) :
                /\ get_actual_model_name(randomized_models,
                       get_model_display_name(randomized_models, s, t, p, FALSE), t, p)
                   = [returns |-> "source", source |-> s, display_name |-> <<>>]
                /\ \A s2 \in Range(randomized_models[scope_key(t, p)]) :
                       get_model_display_name(randomized_models, s2, t, p, FALSE)
                         = get_model_display_name(randomized_models, s, t, p, FALSE)
                       => s2 = s

\* C2 witness: a thread-only scope and a post scope are both mapped, with two
\* sources each and in opposite orders.
C2_Witness ==
    /\ scope_key(1, NoPost) \in DOMAIN randomized_models
    /\ scope_key(1, 2) \in DOMAIN randomized_models
    /\ randomized_models[scope_key(1, NoPost)] = <<"gpt-4o", "deepseek-chat">>
    /\ randomized_models[scope_key(1, 2)] = <<"deepseek-chat", "gpt-4o">>

\* the number of documents of (thread, post) by the session's voter identity
OwnVotes(thread_id, post_id) ==
    SumCopies(votes, MatchVoter(votes, thread_id, post_id, user_ip_of(query_ip)))

\* C3 (as claimed): the store never holds more than one vote record of the
\* session's voter identity for one (thread, post).
C3_OneVotePerItem ==
    \A it \in Items : OwnVotes(it[1], it[2]) <= 1

\* the last direct store call
LastCall == log[Len(log)]

\* the stats of (thread, post) over a collection of a reachable store
StatsOf(coll, it) == get_vote_stats(TRUE, coll, it[1], it[2])

\* C4: with the store reachable, after save_vote(t, p, s, v) the stats of
\* (t, p) count exactly one more for s and one more in total than before the
\* call, the counts of the other sources of (t, p) are as before, and the
\* stats of every other (thread, post) are as before.
C4_CastAddsOne ==
    (log # <<>> /\ LastCall.op = "save_vote" /\ dbUp) =>
        LET e == LastCall
            it == <<e.thread_id, e.post_id>>
            before == StatsOf(e.before, it)
            after == StatsOf(votes, it)
        IN  /\ after.total = before.total + 1
            /\ CountOf(after.counts, e.model) = CountOf(before.counts, e.model) + 1
            /\ DOMAIN after.counts = DOMAIN before.counts \cup {e.model}
            /\ \A m \in DOMAIN after.counts \ {e.model} :
                   after.counts[m] = before.counts[m]
            /\ \A other \in Items \ {it} : StatsOf(votes, other) = StatsOf(e.before, other)

\* C4 witness: a cast for a source that already had a vote on that item, while
\* another item holds a vote too.
C4_Witness ==
    /\ log # <<>> /\ LastCall.op = "save_vote" /\ dbUp
    /\ CountOf(StatsOf(LastCall.before, <<LastCall.thread_id, LastCall.post_id>>).counts,
               LastCall.model) = 1
    /\ \E other \in Items \ {<<LastCall.thread_id, LastCall.post_id>>} :
           StatsOf(votes, other).total = 1

\* save_vote(t, p, s, v) directly followed by remove_vote(t, p, v), the voter
\* having had no vote on (t, p) before the cast
CastThenRevoke ==
    /\ Len(log) = 2
    /\ log[1].op = "save_vote" /\ log[2].op = "remove_vote"
    /\ log[2].thread_id = log[1].thread_id
    /\ log[2].post_id = log[1].post_id
    /\ log[2].user_ip = log[1].user_ip
    /\ MatchVoter(log[1].before, log[1].thread_id, log[1].post_id, log[1].user_ip) = {}

\* C5: after save_vote(t, p, s, v) then remove_vote(t, p, v), the voter v
\* having no other vote on (t, p), get_vote_stats(t, p) returns the counts
\* and the total it returned before the cast.
C5_CastRevoke ==
    CastThenRevoke =>
        get_vote_stats(dbUp, votes, log[1].thread_id, log[1].post_id)
          = get_vote_stats(dbUp, log[1].before, log[1].thread_id, log[1].post_id)

\* C5 witness: a cast and its revocation on an item that holds the votes of
\* another voter, one of them for the same source.
C5_Witness ==
    /\ CastThenRevoke /\ dbUp
    /\ StatsOf(votes, <<log[1].thread_id, log[1].post_id>>).total = 2
    /\ CountOf(StatsOf(votes, <<log[1].thread_id, log[1].post_id>>).counts, log[1].model) = 1

\* C6 (as claimed): after remove_vote(t, p, v) no document matching
\* (t, p, v) is left, and every other document is still there.
C6_RevokeDeletesAll ==
    (log # <<>> /\ LastCall.op = "remove_vote" /\ dbUp) =>
        LET e == LastCall
            matching == MatchVoter(e.before, e.thread_id, e.post_id, e.user_ip)
        IN  /\ MatchVoter(votes, e.thread_id, e.post_id, e.user_ip) = {}
            /\ \A d \in BagToSet(e.before) \ matching :
                   CopiesIn(d, votes) = CopiesIn(d, e.before)

\* C7 (as claimed): get_actual_model_name ends in UnknownScopeError when the
\* scope has no mapping and in OutOfRangeError when the letter decodes to a
\* position outside 1..K; it returns a source in the remaining cases only.
C7_ResolveFailsLoudly ==
    (result # <<>> /\ result.fn = "get_actual_model_name") =>
        LET key == scope_key(result.thread_id, result.post_id)
            position == result.arg[Len(result.arg)] - 64
        IN  IF key \notin DOMAIN randomized_models
            THEN result.value.returns = "UnknownScopeError"
            ELSE IF position < 1 \/ position > Len(randomized_models[key])
                 THEN result.value.returns = "OutOfRangeError"
                 ELSE result.value.returns = "source"

\* C8 (as claimed): while get_db() yields None, no vote is reported as
\* submitted and the session vote state stays as it was (empty).
C8_NoVoteWithoutStorage ==
    ~dbUp => /\ notice # "Vote submitted successfully!"
             /\ user_votes = {}
             /\ voted_posts = {}

\* the sources whose real identifier the page shows for post j
Revealed(pg, j) ==
    {line.display_name[3] : line \in pg.posts[j].distribution}
      \cup {c.caption[2] : c \in {x \in Range(pg.posts[j].columns) : x.caption # <<>>}}

\* the viewer has a recorded vote for source m on (thread, post): in the
\* session tracker or, under the session's identity, in the store
HasRecordedVote(thread_id, post_id, m) ==
    \/ get_user_vote_from_session(user_votes, thread_id, post_id, m)
    \/ m \in get_user_vote(dbUp, votes, thread_id, post_id, user_ip_of(query_ip))

\* C9 (as claimed): the page shows the real identifier of a source of post p
\* only if the viewer has a recorded vote for that source on (t, p).
C9_RevealOnlyVoted ==
    page.view = "Thread Translations" =>
        \A j \in DOMAIN page.posts : \A m \in Revealed(page, j) :
            HasRecordedVote(page.thread, page.posts[j].id, m)

\* C10: the page shows the vote distribution of (t, p) only if the viewer has
\* clicked a vote button of that very (t, p) earlier in the session.
C10_DistributionAfterVote ==
    page.view = "Thread Translations" =>
        \A j \in DOMAIN page.posts :
            page.posts[j].distribution # {} => <<page.thread, page.posts[j].id>> \in ever_voted

\* C10 witness: the viewer has voted on post 2 of thread 1 and sees its
\* distribution, while post 1 of that thread, which has votes of an earlier
\* viewer, shows none.
C10_Witness ==
    /\ page.view = "Thread Translations" /\ page.thread = 1
    /\ page.posts[2].distribution # {}
    /\ page.posts[1].distribution = {}
    /\ get_vote_stats(dbUp, votes, 1, 1).total > 0
    /\ ever_voted = {<<1, 2>>}

\* the viewers whose vote for source m on item it stands: cast by their own
\* click and not removed by their own click since
LiveVoters(it, m) ==
    {v \in Viewers : get_user_vote_from_session(viewers[v].user_votes, it[1], it[2], m)}

\* C11 (as claimed): whatever the interleaving of the viewers' casts, removals
\* and stats reads on one (thread, post), the stats count for every source is
\* the number of viewers whose own cast for it has not been removed by
\* themselves, and the document of such a cast is still in the collection
\* (no removal by one viewer deletes what another viewer cast).
C11_ConcurrentTally ==
    (viewers # <<>>) =>
        \A it \in ConcurrentItems : \A m \in AllModels :
            /\ CountOf(get_vote_stats(dbUp, votes, it[1], it[2]).counts, m)
                 = Cardinality(LiveVoters(it, m))
            /\ \A v \in LiveVoters(it, m) :
                   [doc |-> VoteDoc(it[1], it[2], m, user_ip_of(viewers[v].query_ip)),
                    viewer |-> v] \in BagToSet(cast_by)

\* C12 (as claimed): with storage reachable, the session tracker says the
\* viewer voted for source m on (t, p) exactly when the store holds a
\* document (t, p, m) of the viewer's identity.
C12_TrackerAgreesWithStore ==
    dbUp =>
        \A it \in Items : \A m \in AllModels :
            get_user_vote_from_session(user_votes, it[1], it[2], m)
              <=> m \in get_user_vote(dbUp, votes, it[1], it[2], user_ip_of(query_ip))

====
